---- MODULE Spec2Model ----
(***************************************************************************)
(* TemperatureProblem (temperatureCalculator.py): the walk-on-spheres      *)
(* Monte-Carlo estimator of the temperature at a point of a rectangle.    *)
(*                                                                         *)
(* Lengths are counted in units of WALL_EPSILON (0.05), so coordinates     *)
(* are integers.  The random angle is drawn from the multiples of pi/2,    *)
(* whose cosine and sine are exact; every such angle is an angle           *)
(* np.random.rand() * 2 * pi can produce (up to rounding).                 *)
(* A mean is kept as the exact fraction <<sum, count>>.                    *)
(* Python's None is <<>> for points and means, NoWall for a wall number.   *)
(***************************************************************************)
EXTENDS Integers, Sequences, FiniteSets, TLC

\* ------------------------------------------------------------------ bounds
\* Largest rectangle side, in units of WALL_EPSILON.
MaxDim == 6

\* Module constants of the program.
WALL_EPSILON == 1
\* 10**3 in the program; scaled down so that full sample arrays are reached.
DICE_ROLLS_PER_DOT == 2

None == <<>>
\* point_is_next_to_wall's None.
NoWall == -1

Threads == {"main", "worker"}
\* KeyboardInterrupt is raised in the main thread only.
MainThread == "main"

\* Quarter turns: angle = k * pi/2.
Angles == 0 .. 3
Cos(a) == CASE a = 0 -> 1 [] a = 1 -> 0 [] a = 2 -> -1 [] a = 3 -> 0
Sin(a) == CASE a = 0 -> 0 [] a = 1 -> 1 [] a = 2 -> 0 [] a = 3 -> -1

Min2(a, b) == IF a <= b THEN a ELSE b

VARIABLES
    xDim, yDim,          \* self.xDim, self.yDim
    borderTemps,         \* self.borderTemps, indexed 0..3
    POI,                 \* <<self.xPOI, self.yPOI>>, or None
    CurrentPointArray,   \* self.CurrentPointArray; each sample also carries
                         \* the start of the walk that produced it (from)
    pc,                  \* per thread: where its get_poi_temp call stands
    arg,                 \* per thread: the call's parameters <<x, y>>
    curr,                \* per thread: <<curr_x, curr_y>>
    wall,                \* per thread: the local wall
    temp,                \* per thread: the local temp / the returned value
    wstart,              \* per thread: where the walk in progress started
    meanOf               \* per thread: the samples temp was computed from

vars == <<xDim, yDim, borderTemps, POI, CurrentPointArray, pc, arg, curr,
          wall, temp, wstart, meanOf>>

\* A call is not in progress in these states.
Ended == {"idle", "returned", "raised", "cancelled", "interrupted", "error"}
\* Lines 93-102: the body of the try statement.
InTry == {"step", "test", "branch", "append"}
\* Lines 86-91 and 110-112: in the call, outside the try statement.
OutsideTry == {"check", "loop", "mean", "clear"}

\* The rectangles and wall temperatures the constructor is given.
TempVectors ==
    { [w \in 0 .. 3 |-> CASE w = 0 -> 10 [] w = 1 -> 5 [] w = 2 -> 5 [] w = 3 -> 20],
      [w \in 0 .. 3 |-> 5] }

\* The query points callers ask for: outside on one axis, outside on both,
\* within WALL_EPSILON of a wall, on a corner, and interior points.
QueryPoints(xd, yd) ==
    { <<-1, 3>>, <<-1, -1>>, <<xd + 1, yd + 1>>, <<2, yd + 1>>,
      <<1, 3>>, <<0, 0>>, <<2, 2>>, <<3, 3>>,
      <<xd - 1, 1>>, <<xd - 1, yd - 1>>, <<1, yd - 1>> }

\* The two points of a grid that two threads ask for at the same time.
ParQueryPoints == { <<2, 2>>, <<1, 2>> }

\* ------------------------------------------------------------ pure helpers
poi_is_inside ==
    \/ (0 <= POI[1] /\ POI[1] <= xDim)
    \/ (0 <= POI[2] /\ POI[2] <= yDim)

\* The walls tested in the order bottom, right, left, top.
point_is_next_to_wall_BottomFirst(x, y) ==
    IF y <= WALL_EPSILON THEN 0
    ELSE IF xDim - x <= WALL_EPSILON THEN 1
    ELSE IF x <= WALL_EPSILON THEN 2
    ELSE IF yDim - y <= WALL_EPSILON THEN 3
    ELSE NoWall

point_is_next_to_wall(x, y) ==
    IF x <= WALL_EPSILON THEN 2
    ELSE IF y <= WALL_EPSILON THEN 0
    ELSE IF xDim - x <= WALL_EPSILON THEN 1
    ELSE IF yDim - y <= WALL_EPSILON THEN 3
    ELSE NoWall

cir_rad(x_pr, y_pr) == Min2(Min2(xDim - x_pr, yDim - y_pr), Min2(x_pr, y_pr))

get_circle_and_rnd_point(x_pr, y_pr, angle) ==
    << x_pr + cir_rad(x_pr, y_pr) * Cos(angle),
       y_pr + cir_rad(x_pr, y_pr) * Sin(angle) >>

RECURSIVE SumT(_)
SumT(s) == IF s = <<>> THEN 0 ELSE s[1].t + SumT(Tail(s))

\* np.mean(np.array(samples)): the fraction sum / count.
Mean(s) == << SumT(s), Len(s) >>

LoopCond == Len(CurrentPointArray) < DICE_ROLLS_PER_DOT

\* The wall's number recorded in place of its temperature.
Sample_WallNumber(p) == [t |-> wall[p], from |-> wstart[p]]

\* Line 102's operand: self.borderTemps[wall].
Sample(p) == [t |-> borderTemps[wall[p]], from |-> wstart[p]]

\* ---------------------------------------------------------------- actions
InitLocals ==
    /\ POI = None
    /\ CurrentPointArray = <<>>
    /\ pc = [p \in Threads |-> "idle"]
    /\ arg = [p \in Threads |-> None]
    /\ curr = [p \in Threads |-> None]
    /\ wall = [p \in Threads |-> NoWall]
    /\ temp = [p \in Threads |-> None]
    /\ wstart = [p \in Threads |-> None]
    /\ meanOf = [p \in Threads |-> <<>>]

Init ==
    /\ xDim = MaxDim
    /\ yDim \in {MaxDim - 1, MaxDim}
    /\ borderTemps \in TempVectors
    /\ InitLocals

\* Line 86: self.xPOI, self.yPOI = curr_x, curr_y = x, y
Call(p, x, y) ==
    /\ pc[p] \in Ended
    /\ POI' = <<x, y>>
    /\ arg' = [arg EXCEPT ![p] = <<x, y>>]
    /\ curr' = [curr EXCEPT ![p] = <<x, y>>]
    /\ wstart' = [wstart EXCEPT ![p] = <<x, y>>]
    /\ wall' = [wall EXCEPT ![p] = NoWall]
    /\ temp' = [temp EXCEPT ![p] = None]
    /\ meanOf' = [meanOf EXCEPT ![p] = <<>>]
    /\ pc' = [pc EXCEPT ![p] = "check"]
    /\ UNCHANGED <<xDim, yDim, borderTemps, CurrentPointArray>>

\* Lines 87-89: comparing None with 0 is a TypeError.
CheckInside(p) ==
    /\ pc[p] = "check"
    /\ pc' = [pc EXCEPT ![p] = IF POI = None THEN "error"
                               ELSE IF ~poi_is_inside THEN "raised"
                               ELSE "loop"]
    /\ UNCHANGED <<xDim, yDim, borderTemps, POI, CurrentPointArray, arg, curr,
                   wall, temp, wstart, meanOf>>

\* Line 91.
LoopTest(p) ==
    /\ pc[p] = "loop"
    /\ pc' = [pc EXCEPT ![p] = IF LoopCond THEN "step" ELSE "mean"]
    /\ UNCHANGED <<xDim, yDim, borderTemps, POI, CurrentPointArray, arg, curr,
                   wall, temp, wstart, meanOf>>

\* Line 96; min() over None is a TypeError, which the try does not catch.
Step(p) ==
    /\ pc[p] = "step"
    /\ IF curr[p] = None
       THEN /\ pc' = [pc EXCEPT ![p] = "error"]
            /\ curr' = curr
       ELSE /\ \E a \in Angles :
                 curr' = [curr EXCEPT
                            ![p] = get_circle_and_rnd_point(curr[p][1], curr[p][2], a)]
            /\ pc' = [pc EXCEPT ![p] = "test"]
    /\ UNCHANGED <<xDim, yDim, borderTemps, POI, CurrentPointArray, arg,
                   wall, temp, wstart, meanOf>>

\* Line 97.
Test(p) ==
    /\ pc[p] = "test"
    /\ wall' = [wall EXCEPT ![p] = point_is_next_to_wall(curr[p][1], curr[p][2])]
    /\ pc' = [pc EXCEPT ![p] = "branch"]
    /\ UNCHANGED <<xDim, yDim, borderTemps, POI, CurrentPointArray, arg, curr,
                   temp, wstart, meanOf>>

\* Line 101 left out: the walk goes on from the wall it hit.
Branch_KeepsPosition(p) ==
    /\ pc[p] = "branch"
    /\ pc' = [pc EXCEPT ![p] = IF wall[p] # NoWall THEN "append" ELSE "loop"]
    /\ UNCHANGED <<xDim, yDim, borderTemps, POI, CurrentPointArray, arg, curr,
                   wall, temp, wstart, meanOf>>

\* Lines 100-101.
Branch(p) ==
    /\ pc[p] = "branch"
    /\ IF wall[p] # NoWall
       THEN /\ curr' = [curr EXCEPT ![p] = POI]
            /\ pc' = [pc EXCEPT ![p] = "append"]
       ELSE /\ curr' = curr
            /\ pc' = [pc EXCEPT ![p] = "loop"]
    /\ UNCHANGED <<xDim, yDim, borderTemps, POI, CurrentPointArray, arg,
                   wall, temp, wstart, meanOf>>

\* Line 102; the next walk starts where line 101 put curr.
AppendSample(p) ==
    /\ pc[p] = "append"
    /\ CurrentPointArray' = Append(CurrentPointArray, Sample(p))
    /\ wstart' = [wstart EXCEPT ![p] = curr[p]]
    /\ pc' = [pc EXCEPT ![p] = "loop"]
    /\ UNCHANGED <<xDim, yDim, borderTemps, POI, arg, curr, wall, temp, meanOf>>

\* Line 110.
ComputeMean(p) ==
    /\ pc[p] = "mean"
    /\ temp' = [temp EXCEPT ![p] = Mean(CurrentPointArray)]
    /\ meanOf' = [meanOf EXCEPT ![p] = CurrentPointArray]
    /\ pc' = [pc EXCEPT ![p] = "clear"]
    /\ UNCHANGED <<xDim, yDim, borderTemps, POI, CurrentPointArray, arg, curr,
                   wall, wstart>>

\* Lines 112-113.
ClearAndReturn(p) ==
    /\ pc[p] = "clear"
    /\ CurrentPointArray' = <<>>
    /\ pc' = [pc EXCEPT ![p] = "returned"]
    /\ UNCHANGED <<xDim, yDim, borderTemps, POI, arg, curr, wall, temp, wstart,
                   meanOf>>

\* Lines 103-108: KeyboardInterrupt raised while the try body runs.
Cancel(p) ==
    /\ p = MainThread
    /\ pc[p] \in InTry
    /\ CurrentPointArray' = <<>>
    /\ POI' = None
    /\ temp' = [temp EXCEPT ![p] = None]
    /\ pc' = [pc EXCEPT ![p] = "cancelled"]
    /\ UNCHANGED <<xDim, yDim, borderTemps, arg, curr, wall, wstart, meanOf>>

\* KeyboardInterrupt raised at lines 86-91 or 110-112, which no handler
\* covers: it leaves get_poi_temp as an exception.
Propagate(p) ==
    /\ p = MainThread
    /\ pc[p] \in OutsideTry
    /\ temp' = [temp EXCEPT ![p] = None]
    /\ pc' = [pc EXCEPT ![p] = "interrupted"]
    /\ UNCHANGED <<xDim, yDim, borderTemps, POI, CurrentPointArray, arg, curr,
                   wall, wstart, meanOf>>

\* The statements of get_poi_temp, one line at a time.
Run(p) ==
    \/ CheckInside(p)
    \/ LoopTest(p)
    \/ Step(p)
    \/ Test(p)
    \/ Branch(p)
    \/ AppendSample(p)
    \/ ComputeMean(p)
    \/ ClearAndReturn(p)

\* One caller: the calls follow one another (plot3d, __main__).
Next ==
    \/ \E q \in QueryPoints(xDim, yDim) : Call(MainThread, q[1], q[2])
    \/ Run(MainThread)
    \/ Cancel(MainThread)
    \/ Propagate(MainThread)

Spec == Init /\ [][Next]_vars

\* Two threads call get_poi_temp on the same object, their lines interleaved.
\* No interrupt is raised in these runs.
InitPar ==
    /\ xDim = MaxDim - 2
    /\ yDim = MaxDim - 2
    /\ borderTemps = [w \in 0 .. 3 |-> CASE w = 0 -> 10 [] w = 1 -> 5
                                         [] w = 2 -> 5 [] w = 3 -> 20]
    /\ InitLocals

NextPar ==
    \E p \in Threads :
        \/ \E q \in ParQueryPoints : Call(p, q[1], q[2])
        \/ Run(p)

SpecPar == InitPar /\ [][NextPar]_vars

\* A call in progress keeps executing its statements; nothing obliges a
\* caller to call again or an interrupt to arrive.
InitLoop ==
    /\ xDim = MaxDim
    /\ yDim = MaxDim
    /\ borderTemps = [w \in 0 .. 3 |-> 5]
    /\ InitLocals

FairSpec == InitLoop /\ [][Next]_vars /\ WF_vars(Run(MainThread))

\* ----------------------------------------------------------------- claims
\* The rectangle, walls included.
Inside(q) == 0 <= q[1] /\ q[1] <= xDim /\ 0 <= q[2] /\ q[2] <= yDim
\* Strictly inside the rectangle.
Interior(q) == 0 < q[1] /\ q[1] < xDim /\ 0 < q[2] /\ q[2] < yDim
\* Within WALL_EPSILON of one of the four walls.
NearWall(q) ==
    \/ q[1] <= WALL_EPSILON
    \/ q[2] <= WALL_EPSILON
    \/ xDim - q[1] <= WALL_EPSILON
    \/ yDim - q[2] <= WALL_EPSILON
InCall == InTry \cup OutsideTry
Abs(n) == IF n < 0 THEN -n ELSE n

\* C1: a call whose query point lies outside the rectangle gets no further
\* than the check of line 87: it ends with the exception of line 89 (or is
\* interrupted before), takes no step and records no sample.
C1_OutsideIsRejected ==
    \A p \in Threads :
        (pc[p] # "idle" /\ ~Inside(arg[p]))
            => pc[p] \in {"check", "raised", "interrupted"}

\* C2: whenever no call is in progress, however the calls before ended, the
\* sample array is empty, so the next call starts from an empty array.
C2_EmptyBetweenCalls ==
    pc[MainThread] \in Ended => CurrentPointArray = <<>>

\* C3: a call that returns normally returns the mean of exactly
\* DICE_ROLLS_PER_DOT samples, each produced by a walk that started from the
\* call's own query point.
C3_MeanOfOwnTrials ==
    pc[MainThread] = "returned" =>
        /\ temp[MainThread] = Mean(meanOf[MainThread])
        /\ Len(meanOf[MainThread]) = DICE_ROLLS_PER_DOT
        /\ \A i \in 1 .. Len(meanOf[MainThread]) :
              meanOf[MainThread][i].from = arg[MainThread]

\* C4: a call ended by a KeyboardInterrupt, wherever in the call it arrived,
\* returns no value and leaves the sample array empty.
C4_InterruptDiscards ==
    pc[MainThread] \in {"cancelled", "interrupted"} =>
        /\ temp[MainThread] = None
        /\ CurrentPointArray = <<>>

\* C5: with two calls interleaved on one object, each call that returns
\* returns the mean of exactly DICE_ROLLS_PER_DOT samples, all of them from
\* walks started at its own query point.
C5_CallsAreIsolated ==
    \A p \in Threads :
        pc[p] = "returned" =>
            /\ Len(meanOf[p]) = DICE_ROLLS_PER_DOT
            /\ \A i \in 1 .. Len(meanOf[p]) : meanOf[p][i].from = arg[p]

\* C6: every call in progress eventually ends, whatever angles are drawn.
C6_CallTerminates ==
    (pc[MainThread] \in InCall) ~> (pc[MainThread] \in Ended)

\* C7: with the four wall temperatures equal to T, a call at an interior
\* point that returns normally returns a value within 0.5 of T:
\* |sum / n - T| <= 1/2, that is 2 * |sum - n * T| <= n.
C7_UniformWalls ==
    \A p \in Threads :
        ( /\ pc[p] = "returned"
          /\ Interior(arg[p])
          /\ \A w \in 0 .. 3 : borderTemps[w] = borderTemps[0] )
        => /\ temp[p] # None
           /\ temp[p][2] > 0
           /\ 2 * Abs(temp[p][1] - temp[p][2] * borderTemps[0]) <= temp[p][2]

C7_Witness ==
    /\ pc[MainThread] = "returned"
    /\ Interior(arg[MainThread])
    /\ \A w \in 0 .. 3 : borderTemps[w] = borderTemps[0]
    /\ temp[MainThread] = <<DICE_ROLLS_PER_DOT * borderTemps[0], DICE_ROLLS_PER_DOT>>

\* C8: the wall number point_is_next_to_wall gave for the position just
\* reached is 2 if x <= eps, else 0 if y <= eps, else 1 if xDim - x <= eps,
\* else 3 if yDim - y <= eps, and None exactly when the position is farther
\* than eps from all four walls.
C8_WallPriority ==
    \A p \in Threads :
        pc[p] = "branch" =>
            LET x == curr[p][1]
                y == curr[p][2]
            IN  /\ (x <= WALL_EPSILON) => wall[p] = 2
                /\ (x > WALL_EPSILON /\ y <= WALL_EPSILON) => wall[p] = 0
                /\ (x > WALL_EPSILON /\ y > WALL_EPSILON
                      /\ xDim - x <= WALL_EPSILON) => wall[p] = 1
                /\ (x > WALL_EPSILON /\ y > WALL_EPSILON
                      /\ xDim - x > WALL_EPSILON
                      /\ yDim - y <= WALL_EPSILON) => wall[p] = 3
                /\ (wall[p] = NoWall) <=> ~NearWall(curr[p])

\* A position within eps of the bottom and of the right wall, given to the
\* bottom wall.
C8_Witness ==
    /\ pc[MainThread] = "branch"
    /\ curr[MainThread][2] <= WALL_EPSILON
    /\ xDim - curr[MainThread][1] <= WALL_EPSILON
    /\ curr[MainThread][1] > WALL_EPSILON
    /\ wall[MainThread] = 0

\* C9 as stated: the step of line 96 is never applied to a position within
\* eps of a wall, the query point at the start of a trial included (query
\* points inside the rectangle).
C9_NeverSteppedNearWall ==
    \A p \in Threads :
        (pc[p] = "step" /\ Inside(arg[p])) => ~NearWall(curr[p])

\* C9 amended: the step of line 96 is applied to a position within eps of a
\* wall only when that position is the query point, from which each trial
\* steps without a test; every position a step produced is tested, and
\* absorbed when within eps of a wall, before a step is taken from it.
C9_OnlyStartSteppedNearWall ==
    \A p \in Threads :
        (pc[p] = "step" /\ curr[p] # arg[p]) => ~NearWall(curr[p])

\* A walk about to take its second or later step, from a position a step
\* produced.
C9_Witness ==
    /\ pc[MainThread] = "step"
    /\ curr[MainThread] # arg[MainThread]
    /\ curr[MainThread] # wstart[MainThread]
    /\ Inside(arg[MainThread])

\* C10: every step uses a radius >= 0 and every position of a walk lies in
\* the rectangle.
C10_WalkStaysInside ==
    \A p \in Threads :
        pc[p] \in InTry =>
            /\ Inside(curr[p])
            /\ pc[p] = "step" => cir_rad(curr[p][1], curr[p][2]) >= 0

====
